---------------------------- MODULE Spec2Model ----------------------------
(***************************************************************************)
(* A model of the PDF reader server of src/src/index.ts: the tool          *)
(* dispatcher, the pdfCache and loadPDF, the line-count page segmentation  *)
(* of handleReadPDFPage and the line search of handleSearchPDF.            *)
(*                                                                         *)
(* Strings are sequences of one-character strings, so that split, join,    *)
(* toLowerCase, includes, trim and path.resolve are computed as the        *)
(* runtime computes them.  JavaScript values carry their type tag.         *)
(***************************************************************************)
EXTENDS Integers, Sequences, FiniteSets, Bags, TLC

(***************************************************************************)
(* Bounds of the model.                                                    *)
(***************************************************************************)
MaxTextLen == 4
MaxQueryLen == 2
MaxPages == 3
MaxReads == 2

(***************************************************************************)
(* Characters and strings.                                                 *)
(***************************************************************************)
NL == "\n"
Alphabet == {"F", "f", " ", NL}

RECURSIVE StringsUpTo(_)
StringsUpTo(n) ==
    IF n = 0 THEN {<<>>}
    ELSE LET shorter == StringsUpTo(n - 1)
         IN  shorter \cup {Append(s, c) : s \in {t \in shorter : Len(t) = n - 1}, c \in Alphabet}

Texts == StringsUpTo(MaxTextLen)
Queries == StringsUpTo(MaxQueryLen)

\* String.prototype.toLowerCase, one character at a time.
LowerChar(c) == IF c = "F" THEN "f" ELSE c
toLowerCase(s) == [i \in 1..Len(s) |-> LowerChar(s[i])]

\* String.prototype.includes: q occurs in s as a contiguous substring.
includes(s, q) ==
    \E k \in 0..(Len(s) - Len(q)) : \A j \in 1..Len(q) : s[k + j] = q[j]

\* String.prototype.trim: white space removed at both ends.
IsSpace(c) == c \in {" ", NL}
RECURSIVE trimStart(_)
trimStart(s) ==
    IF s # <<>> /\ IsSpace(Head(s)) THEN trimStart(Tail(s)) ELSE s
RECURSIVE trimEnd(_)
trimEnd(s) ==
    IF s # <<>> /\ IsSpace(s[Len(s)]) THEN trimEnd(SubSeq(s, 1, Len(s) - 1)) ELSE s
trim(s) == trimEnd(trimStart(s))

\* String.prototype.split("\n"): always at least one element.
RECURSIVE split(_, _)
split(s, sep) ==
    IF \E i \in 1..Len(s) : s[i] = sep
    THEN LET i == CHOOSE k \in 1..Len(s) :
                      s[k] = sep /\ \A j \in 1..(k - 1) : s[j] # sep
         IN  <<SubSeq(s, 1, i - 1)>> \o split(SubSeq(s, i + 1, Len(s)), sep)
    ELSE <<s>>

\* Array.prototype.join("\n").
RECURSIVE join(_, _)
join(arr, sep) ==
    IF arr = <<>> THEN <<>>
    ELSE IF Len(arr) = 1 THEN arr[1]
    ELSE arr[1] \o <<sep>> \o join(Tail(arr), sep)

(***************************************************************************)
(* JavaScript numbers as far as the page arithmetic needs them: integers,  *)
(* +Infinity, -Infinity and NaN.                                           *)
(***************************************************************************)
Num(n) == [k |-> "int", v |-> n]
PosInf == [k |-> "inf", v |-> 1]
NegInf == [k |-> "inf", v |-> -1]
NaN == [k |-> "nan", v |-> 0]

Sign(n) == IF n > 0 THEN 1 ELSE IF n < 0 THEN -1 ELSE 0
CeilDiv(a, b) == IF a % b = 0 THEN a \div b ELSE (a \div b) + 1

\* Math.ceil(a / b) for an integer a >= 0 and an integer b >= 0.
jsCeilDiv(a, b) ==
    IF b > 0 THEN Num(CeilDiv(a, b))
    ELSE IF a > 0 THEN PosInf
    ELSE NaN

\* a * b
jsMul(a, b) ==
    IF a.k = "nan" \/ b.k = "nan" THEN NaN
    ELSE IF a.k = "int" /\ b.k = "int" THEN Num(a.v * b.v)
    ELSE LET s == Sign(a.v) * Sign(b.v)
         IN  IF s = 0 THEN NaN ELSE IF s > 0 THEN PosInf ELSE NegInf

\* a - 1
jsMinusOne(a) == IF a.k = "int" THEN Num(a.v - 1) ELSE a

\* The index an argument of Array.prototype.slice denotes in an array of
\* len elements: NaN is 0, a negative number counts from the end.
sliceIndex(a, len) ==
    IF a.k = "nan" THEN 0
    ELSE IF a.k = "inf" THEN (IF a.v > 0 THEN len ELSE 0)
    ELSE IF a.v < 0 THEN (IF len + a.v > 0 THEN len + a.v ELSE 0)
    ELSE IF a.v < len THEN a.v ELSE len

\* Array.prototype.slice(start, end), the elements as a sequence.
slice(arr, start, end) ==
    LET from == sliceIndex(start, Len(arr))
        to == sliceIndex(end, Len(arr))
    IN  SubSeq(arr, from + 1, to)

(***************************************************************************)
(* JavaScript values of an argument bag, with their typeof.                *)
(***************************************************************************)
Undefined == [t |-> "undefined"]
JNum(n) == [t |-> "number", n |-> n]
JStr(s) == [t |-> "string", s |-> s]
JBool(b) == [t |-> "boolean", b |-> b]
typeof(v) == v.t

\* ToNumber, as the operators - and * apply it to their operands.
ToNumber(v) ==
    IF v.t = "number" THEN Num(v.n)
    ELSE IF v.t = "boolean" THEN Num(IF v.b THEN 1 ELSE 0)
    ELSE IF v.t = "string" /\ trim(v.s) = <<>> THEN Num(0)
    ELSE NaN

\* ToBoolean, as a condition applies it.
Truthy(v) ==
    IF v.t = "boolean" THEN v.b
    ELSE IF v.t = "number" THEN v.n # 0
    ELSE IF v.t = "string" THEN v.s # <<>>
    ELSE FALSE

(***************************************************************************)
(* Handler results.  A handler either returns a response or throws; the    *)
(* text of a response is either the JSON.stringify of a payload or an      *)
(* error text, "Error: " followed by the parts of the message.             *)
(***************************************************************************)
Return(text) == [channel |-> "return", content |-> [type |-> "text", text |-> text]]
Throw(message) == [channel |-> "throw", message |-> message]

JSONstringify(payload) == [json |-> payload]
ErrorText(message) == [error |-> <<"Error: ">> \o message]

MsgMissingArgs == <<"Missing arguments for tool call">>
MsgPathString == <<"path must be a string">>
MsgQueryString == <<"query must be a string">>
MsgPageSelector == <<"Must specify either 'page' or both 'startPage' and 'endPage'">>
MsgUnknownTool(name) == <<"Unknown tool", ": ", name>>
MsgENOENT == <<"ENOENT: no such file or directory">>
MsgInvalidPDF == <<"Invalid PDF structure">>

\* The catch clause of the request handler.
CatchRethrows(outcome) == outcome
Catch(outcome) ==
    IF outcome.channel = "throw" THEN Return(ErrorText(outcome.message)) ELSE outcome

(***************************************************************************)
(* PDFContent and the part of each handler that follows loadPDF.           *)
(***************************************************************************)
PDFContent(data) ==
    [text |-> data.text,
     metadata |-> [title |-> data.info.Title, author |-> data.info.Author,
                   pages |-> data.numpages, created |-> data.info.CreationDate]]

\* handleReadPDF
readPDFResult(resolvedPath, content) ==
    Return(JSONstringify([path |-> resolvedPath, text |-> content.text,
                          metadata |-> content.metadata]))

\* handleGetMetadata
getMetadataResult(resolvedPath, content) ==
    Return(JSONstringify([path |-> resolvedPath, metadata |-> content.metadata]))

\* handleReadPDFPage
linesPerPage(lines, totalPages) == jsCeilDiv(Len(lines), totalPages)

singlePageSlice(lines, page, lpp) ==
    slice(lines, jsMul(jsMinusOne(ToNumber(page)), lpp), jsMul(ToNumber(page), lpp))

rangeSlice(lines, startPage, endPage, lpp) ==
    slice(lines, jsMul(jsMinusOne(ToNumber(startPage)), lpp), jsMul(ToNumber(endPage), lpp))

readPDFPageResult(resolvedPath, content, page, startPage, endPage) ==
    LET lines == split(content.text, NL)
        totalPages == content.metadata.pages
        lpp == linesPerPage(lines, totalPages)
        payload(extractedText) ==
            [path |-> resolvedPath,
             requestedPage |-> page,
             requestedRange |->
                 IF Truthy(startPage) /\ Truthy(endPage)
                 THEN [startPage |-> startPage, endPage |-> endPage]
                 ELSE Undefined,
             text |-> extractedText,
             totalPages |-> totalPages]
    IN  IF page # Undefined
        THEN Return(JSONstringify(payload(join(singlePageSlice(lines, page, lpp), NL))))
        ELSE IF startPage # Undefined /\ endPage # Undefined
        THEN Return(JSONstringify(payload(join(rangeSlice(lines, startPage, endPage, lpp), NL))))
        ELSE Throw(MsgPageSelector)

\* handleSearchPDF
Max(a, b) == IF a > b THEN a ELSE b
Min(a, b) == IF a < b THEN a ELSE b

contextStart(index) == Max(0, index - 1)
contextEndShort(lines, index) == Min(Len(lines), index + 1)
contextEnd(lines, index) == Min(Len(lines), index + 2)

lineMatchesExact(line, query, caseSensitive) == includes(line, query)
lineMatches(line, query, caseSensitive) ==
    LET searchLine == IF caseSensitive THEN line ELSE toLowerCase(line)
        searchQuery == IF caseSensitive THEN query ELSE toLowerCase(query)
    IN  includes(searchLine, searchQuery)

\* lines.forEach((line, index) => ...), index 0-based, from index on.
RECURSIVE forEachLine(_, _, _, _)
forEachLine(lines, index, query, caseSensitive) ==
    IF index >= Len(lines) THEN <<>>
    ELSE LET line == lines[index + 1]
             context == join(slice(lines, Num(contextStart(index)),
                                   Num(contextEnd(lines, index))), NL)
             rest == forEachLine(lines, index + 1, query, caseSensitive)
         IN  IF lineMatches(line, query, caseSensitive)
             THEN <<[line |-> index + 1, text |-> trim(line), context |-> context]>> \o rest
             ELSE rest

searchPDFResult(resolvedPath, content, query, caseSensitiveArg) ==
    LET caseSensitive ==
            IF caseSensitiveArg = Undefined THEN FALSE ELSE Truthy(caseSensitiveArg)
        lines == split(content.text, NL)
        matches == forEachLine(lines, 0, query, caseSensitive)
    IN  Return(JSONstringify([path |-> resolvedPath, query |-> query,
                              matches |-> matches, totalMatches |-> Len(matches)]))

(***************************************************************************)
(* Paths.  path.resolve makes a path absolute against the working          *)
(* directory and normalises it: empty and "." segments are dropped, ".."   *)
(* drops the segment before it.                                            *)
(***************************************************************************)
Cwd == <<"/", "w">>

RECURSIVE normalizeSegments(_, _)
normalizeSegments(segs, acc) ==
    IF segs = <<>> THEN acc
    ELSE LET seg == Head(segs)
         IN  IF seg = <<>> \/ seg = <<".">> THEN normalizeSegments(Tail(segs), acc)
             ELSE IF seg = <<".", ".">>
             THEN normalizeSegments(Tail(segs),
                                    IF acc = <<>> THEN acc ELSE SubSeq(acc, 1, Len(acc) - 1))
             ELSE normalizeSegments(Tail(segs), Append(acc, seg))

resolveKeepsURL(filePath) == filePath
resolve(filePath) ==
    LET absolute == IF filePath # <<>> /\ Head(filePath) = "/"
                    THEN filePath
                    ELSE Cwd \o <<"/">> \o filePath
    IN  <<"/">> \o join(normalizeSegments(split(absolute, "/"), <<>>), "/")

(***************************************************************************)
(* Files.  A file is absent, or holds bytes the parser rejects, or holds a *)
(* PDF, given by what pdf-parse reports for it.                            *)
(***************************************************************************)
NoFile == [kind |-> "absent"]
Garbage == [kind |-> "bytes", valid |-> FALSE]
PDFBytes(text, numpages, title) ==
    [kind |-> "bytes", valid |-> TRUE,
     data |-> [text |-> text, numpages |-> numpages,
               info |-> [Title |-> title, Author |-> Undefined,
                         CreationDate |-> Undefined]]]

\* fs.readFile
readFile(fs, filePath) ==
    IF filePath \notin DOMAIN fs \/ fs[filePath].kind = "absent" THEN Throw(MsgENOENT)
    ELSE [channel |-> "return", buffer |-> fs[filePath]]

\* pdf(dataBuffer)
pdf(dataBuffer) ==
    IF dataBuffer.valid THEN [channel |-> "return", data |-> dataBuffer.data]
    ELSE Throw(MsgInvalidPDF)

(***************************************************************************)
(* The request handler up to loadPDF: the argument checks of the switch.   *)
(***************************************************************************)
NoArgs == Undefined
Args(path, page, startPage, endPage, query, caseSensitive) ==
    [path |-> path, page |-> page, startPage |-> startPage, endPage |-> endPage,
     query |-> query, caseSensitive |-> caseSensitive]

ToolNames == {"read_pdf", "read_pdf_page", "get_pdf_metadata", "search_pdf"}

\* The error the switch throws before it calls a handler, or none.
argumentCheck(name, args) ==
    IF name \notin ToolNames THEN Throw(MsgUnknownTool(name))
    ELSE IF typeof(args.path) # "string" THEN Throw(MsgPathString)
    ELSE IF name = "search_pdf" /\ typeof(args.query) # "string" THEN Throw(MsgQueryString)
    ELSE [channel |-> "none"]

\* What the handler of a tool returns or throws once loadPDF gave content.
handlerResult(name, args, resolvedPath, content) ==
    IF name = "read_pdf" THEN readPDFResult(resolvedPath, content)
    ELSE IF name = "read_pdf_page"
    THEN readPDFPageResult(resolvedPath, content, args.page, args.startPage, args.endPage)
    ELSE IF name = "get_pdf_metadata" THEN getMetadataResult(resolvedPath, content)
    ELSE searchPDFResult(resolvedPath, content, args.query.s, args.caseSensitive)

\* this.pdfCache.set(filePath, content)
cacheSet(cache, filePath, content) ==
    [k \in DOMAIN cache \cup {filePath} |-> IF k = filePath THEN content ELSE cache[k]]

\* The cache after pdf(dataBuffer) has settled in loadPDF.
cacheAfterParseKeepsFailure(cache, filePath, parsed) ==
    IF parsed.channel = "throw"
    THEN cacheSet(cache, filePath,
                  PDFContent([text |-> <<>>, numpages |-> 0,
                              info |-> [Title |-> Undefined, Author |-> Undefined,
                                        CreationDate |-> Undefined]]))
    ELSE cacheSet(cache, filePath, PDFContent(parsed.data))
cacheAfterParse(cache, filePath, parsed) ==
    IF parsed.channel = "throw" THEN cache
    ELSE cacheSet(cache, filePath, PDFContent(parsed.data))

(***************************************************************************)
(* State.                                                                  *)
(*   fsys        the file system: absolute path -> file                    *)
(*   pdfCache    PDFReaderServer.pdfCache                                  *)
(*   inflight    the tool calls suspended in loadPDF, a bag of records     *)
(*               [name, args, key, at, buffer, retry]: at "readFile" the   *)
(*               call awaits fs.readFile, at "pdf" it awaits               *)
(*               pdf(dataBuffer); retry tells that a load of the path had  *)
(*               failed before the call arrived                            *)
(*   last        the tool call the latest step of the handler finished,    *)
(*               with what it returned, whether the path was cached when   *)
(*               the call arrived (hit) and whether a load of it had       *)
(*               failed before (retry); None when that step suspended      *)
(*   readCount   calls of fs.readFile so far                               *)
(*   parseCount  calls of pdf so far                                       *)
(*   metaLog     per path, the metadata get_pdf_metadata has returned to   *)
(*               calls that found the path cached                          *)
(*   failedKeys  the paths a load of which has failed                      *)
(***************************************************************************)
VARIABLES fsys, pdfCache, inflight, last, readCount, parseCount, metaLog, failedKeys
vars == <<fsys, pdfCache, inflight, last, readCount, parseCount, metaLog, failedKeys>>

None == [name |-> "none"]
Finished(name, args, key, hit, retry, outcome) ==
    [name |-> name, args |-> args, key |-> key, hit |-> hit, retry |-> retry,
     outcome |-> outcome]

\* metaLog once a call has finished with outcome.
logMetadata(log, name, key, hit, outcome) ==
    IF name = "get_pdf_metadata" /\ hit /\ outcome.channel = "return"
       /\ "json" \in DOMAIN outcome.content.text
    THEN [log EXCEPT ![key] = @ \cup {outcome.content.text.json.metadata}]
    ELSE log

(***************************************************************************)
(* The request handler, one action per run between two suspension points.  *)
(***************************************************************************)
Suspended(name, args, key, at, buffer, retry) ==
    [name |-> name, args |-> args, key |-> key, at |-> at, buffer |-> buffer,
     retry |-> retry]

Finish(name, args, key, hit, retry, outcome) ==
    /\ last' = Finished(name, args, key, hit, retry, outcome)
    /\ metaLog' = logMetadata(metaLog, name, key, hit, outcome)

LoadFailed(key) == failedKeys' = failedKeys \cup {key}

\* A tool call arrives: the handler runs to its response, or to the
\* await fs.readFile of loadPDF when the path is not cached.  On a cache
\* hit loadPDF has taken the entry before the handler first yields, and the
\* entry is never mutated in place, so the response is that of this step.
Call(c) ==
    LET name == c.name
        args == c.args
        check == IF args = NoArgs THEN Throw(MsgMissingArgs) ELSE argumentCheck(name, args)
        resolvedPath == IF check.channel = "none" THEN resolve(args.path.s) ELSE <<>>
    IN  IF args = NoArgs
        THEN /\ Finish(name, args, <<>>, FALSE, FALSE, Return(ErrorText(MsgMissingArgs)))
             /\ UNCHANGED <<fsys, pdfCache, inflight, readCount, parseCount, failedKeys>>
        ELSE IF check.channel = "throw"
        THEN /\ Finish(name, args, <<>>, FALSE, FALSE, Catch(check))
             /\ UNCHANGED <<fsys, pdfCache, inflight, readCount, parseCount, failedKeys>>
        ELSE IF resolvedPath \in DOMAIN pdfCache
        THEN /\ Finish(name, args, resolvedPath, TRUE, FALSE,
                       Catch(handlerResult(name, args, resolvedPath, pdfCache[resolvedPath])))
             /\ UNCHANGED <<fsys, pdfCache, inflight, readCount, parseCount, failedKeys>>
        ELSE /\ readCount < MaxReads
             /\ inflight' = inflight (+) SetToBag({Suspended(name, args, resolvedPath,
                                                             "readFile", NoFile,
                                                             resolvedPath \in failedKeys)})
             /\ readCount' = readCount + 1
             /\ last' = None
             /\ UNCHANGED <<fsys, pdfCache, parseCount, metaLog, failedKeys>>

\* fs.readFile settles: the call fails, or goes on to await pdf(dataBuffer).
ReadDone(r) ==
    /\ r \in BagToSet(inflight)
    /\ r.at = "readFile"
    /\ LET read == readFile(fsys, r.key)
           rest == inflight (-) SetToBag({r})
       IN  IF read.channel = "throw"
           THEN /\ inflight' = rest
                /\ Finish(r.name, r.args, r.key, FALSE, r.retry, Catch(read))
                /\ LoadFailed(r.key)
                /\ UNCHANGED <<fsys, pdfCache, readCount, parseCount>>
           ELSE /\ inflight' = rest (+) SetToBag({[r EXCEPT !.at = "pdf",
                                                            !.buffer = read.buffer]})
                /\ parseCount' = parseCount + 1
                /\ last' = None
                /\ UNCHANGED <<fsys, pdfCache, readCount, metaLog, failedKeys>>

\* pdf(dataBuffer) settles: the call fails, or caches the content and ends.
ParseDone(r) ==
    /\ r \in BagToSet(inflight)
    /\ r.at = "pdf"
    /\ LET parsed == pdf(r.buffer)
       IN  /\ inflight' = inflight (-) SetToBag({r})
           /\ pdfCache' = cacheAfterParse(pdfCache, r.key, parsed)
           /\ Finish(r.name, r.args, r.key, FALSE, r.retry,
                     IF parsed.channel = "throw" THEN Catch(parsed)
                     ELSE Catch(handlerResult(r.name, r.args, r.key, PDFContent(parsed.data))))
           /\ IF parsed.channel = "throw" THEN LoadFailed(r.key) ELSE UNCHANGED failedKeys
           /\ UNCHANGED <<fsys, readCount, parseCount>>

\* Something outside the server replaces, creates or removes a file.
FileWrite(k, f) ==
    /\ k \in DOMAIN fsys
    /\ fsys[k] # f
    /\ fsys' = [fsys EXCEPT ![k] = f]
    /\ UNCHANGED <<pdfCache, inflight, last, readCount, parseCount, metaLog, failedKeys>>

(***************************************************************************)
(* Inputs.                                                                 *)
(***************************************************************************)
PathA == <<"a">>
PathB == <<"b">>
PathAbsA == <<"/", "w", "/", ".", "/", "a">>
PathURL == <<"h", "t", "t", "p", ":", "/", "/", "h", "/", "a">>

DocOne == PDFBytes(<<"F", NL, "f", " ">>, 2, JStr(<<"F">>))
DocTwo == PDFBytes(<<"f">>, 1, Undefined)
Files == {NoFile, Garbage, DocOne, DocTwo}

PathArgs(path) == Args(JStr(path), Undefined, Undefined, Undefined, Undefined, Undefined)

EmptyCache == [k \in {} |-> None]

InitServer(paths) ==
    /\ fsys \in [{resolve(q) : q \in paths} -> Files]
    /\ pdfCache = EmptyCache
    /\ inflight = EmptyBag
    /\ last = None
    /\ readCount = 0
    /\ parseCount = 0
    /\ metaLog = [k \in {resolve(q) : q \in paths} |-> {}]
    /\ failedKeys = {}

(***************************************************************************)
(* Spec: tool calls on two files, interleaved at the suspension points of  *)
(* loadPDF, while the files change.                                        *)
(***************************************************************************)
RacePaths == {PathA, PathB}
RaceCalls == [name : {"read_pdf", "get_pdf_metadata"}, args : {PathArgs(q) : q \in RacePaths}]

Init == InitServer(RacePaths)

Next ==
    \/ \E c \in RaceCalls : Call(c)
    \/ \E r \in BagToSet(inflight) : ReadDone(r)
    \/ \E r \in BagToSet(inflight) : ParseDone(r)
    \/ \E k \in DOMAIN fsys, f \in Files : FileWrite(k, f)

Spec == Init /\ [][Next]_vars

(***************************************************************************)
(* SpecDispatch: one tool call at a time, over every tool name and over    *)
(* argument bags with each field absent, of its declared type, or of       *)
(* another type, on files that stay as they are.                           *)
(***************************************************************************)
DispatchPaths == {PathA, PathAbsA, PathURL}
DispatchNames == ToolNames \cup {"delete_pdf"}

One == JNum(1)
Two == JNum(2)
QueryF == JStr(<<"f">>)
NotANumber == JStr(<<"F">>)

DispatchBags ==
    {NoArgs}
    \cup {Args(q, Undefined, Undefined, Undefined, Undefined, Undefined) :
            q \in {Undefined, One} \cup {JStr(w) : w \in DispatchPaths}}
    \cup {Args(JStr(PathA), g, Undefined, Undefined, Undefined, Undefined) :
            g \in {One, NotANumber}}
    \cup {Args(JStr(PathA), Undefined, se[1], se[2], Undefined, Undefined) :
            se \in {<<One, Two>>, <<One, Undefined>>, <<NotANumber, Two>>}}
    \cup {Args(JStr(PathA), Undefined, Undefined, Undefined, qc[1], qc[2]) :
            qc \in {<<QueryF, Undefined>>, <<One, Undefined>>,
                    <<QueryF, JBool(TRUE)>>, <<QueryF, NotANumber>>}}

DispatchCalls == [name : DispatchNames, args : DispatchBags]

InitDispatch == InitServer(DispatchPaths)

NextDispatch ==
    \/ \E c \in DispatchCalls : inflight = EmptyBag /\ Call(c)
    \/ \E r \in BagToSet(inflight) : ReadDone(r)
    \/ \E r \in BagToSet(inflight) : ParseDone(r)

SpecDispatch == InitDispatch /\ [][NextDispatch]_vars

(***************************************************************************)
(* SpecPage and SpecSearch: one call of read_pdf_page, or of search_pdf,   *)
(* on a document that an earlier call has loaded, over every text of up to *)
(* MaxTextLen characters (and, for pages, every page count up to           *)
(* MaxPages).                                                              *)
(***************************************************************************)
KeyA == resolve(PathA)

InitLoaded(pageCounts) ==
    /\ \E text \in Texts, numpages \in pageCounts :
          /\ fsys = [k \in {KeyA} |-> PDFBytes(text, numpages, Undefined)]
          /\ pdfCache = cacheSet(EmptyCache, KeyA, PDFContent(fsys[KeyA].data))
    /\ inflight = EmptyBag
    /\ last = None
    /\ readCount = 1
    /\ parseCount = 1
    /\ metaLog = [k \in {KeyA} |-> {}]
    /\ failedKeys = {}

PageNumbers == (0 - MaxPages - 1)..(MaxPages + 2)

PageCalls ==
    [name : {"read_pdf_page"},
     args : {Args(JStr(PathA), g, Undefined, Undefined, Undefined, Undefined) :
                g \in {JNum(n) : n \in PageNumbers}}
            \cup {Args(JStr(PathA), Undefined, JNum(se[1]), JNum(se[2]), Undefined, Undefined) :
                    se \in (1..MaxPages) \X (1..MaxPages)}
            \cup {Args(JStr(PathA), Undefined, g, Undefined, Undefined, Undefined) :
                    g \in {Undefined, One}}]

NextPage == \E c \in PageCalls : last = None /\ Call(c)

InitPage == InitLoaded(0..MaxPages)

SpecPage == InitPage /\ [][NextPage]_vars

SearchCalls ==
    [name : {"search_pdf"},
     args : {Args(JStr(PathA), Undefined, Undefined, Undefined, JStr(q), cs) :
                q \in Queries, cs \in {Undefined, JBool(TRUE), JBool(FALSE)}}]

NextSearch == \E c \in SearchCalls : last = None /\ Call(c)

InitSearch == InitLoaded({1})

SpecSearch == InitSearch /\ [][NextSearch]_vars

(***************************************************************************)
(* Properties.                                                             *)
(***************************************************************************)
IsErrorText(outcome) ==
    outcome.channel = "return" /\ "error" \in DOMAIN outcome.content.text
IsPayload(outcome) ==
    outcome.channel = "return" /\ "json" \in DOMAIN outcome.content.text
LoadError(outcome) ==
    /\ IsErrorText(outcome)
    /\ outcome.content.text.error \in {<<"Error: ">> \o MsgENOENT, <<"Error: ">> \o MsgInvalidPDF}

\* C1 (as claimed): no step replaces, changes or removes a cache entry, and
\* a read_pdf that finds its path cached returns the text and metadata of
\* the entry, whatever has become of the file.
C1_CacheStable ==
    [][/\ \A k \in DOMAIN pdfCache :
             k \in DOMAIN pdfCache' /\ pdfCache'[k] = pdfCache[k]
       /\ (last'.name = "read_pdf" /\ last'.hit /\ IsPayload(last'.outcome))
             => /\ last'.key \in DOMAIN pdfCache
                /\ last'.outcome.content.text.json.text = pdfCache[last'.key].text
                /\ last'.outcome.content.text.json.metadata = pdfCache[last'.key].metadata
      ]_vars

\* C2 (as claimed): a call that finds its path cached calls neither
\* fs.readFile nor pdf (the counters stay), and all the metadata that
\* get_pdf_metadata returns for one cached path is the same.
C2_HitNoIO ==
    [][/\ (last'.name # "none" /\ last'.hit)
             => readCount' = readCount /\ parseCount' = parseCount
       /\ \A k \in DOMAIN metaLog' : Cardinality(metaLog'[k]) <= 1
      ]_vars

\* C3: a step in which a load fails (fs.readFile or pdf throws) ends that
\* call with no further read or parse and leaves the cache as it was; and a
\* call that arrives for a path not in the cache, failed before or not,
\* starts a fresh fs.readFile.
C3_FailuresNotCached ==
    [][/\ (BagCardinality(inflight') < BagCardinality(inflight)
           /\ last'.name # "none" /\ LoadError(last'.outcome))
             => /\ pdfCache' = pdfCache
                /\ readCount' = readCount /\ parseCount' = parseCount
                /\ BagCardinality(inflight') = BagCardinality(inflight) - 1
       /\ \A r \in BagToSet(inflight') :
             (CopiesIn(r, inflight') > CopiesIn(r, inflight) /\ r.at = "readFile")
                => /\ r.key \notin DOMAIN pdfCache
                   /\ r.retry = (r.key \in failedKeys)
                   /\ readCount' = readCount + 1
      ]_vars

\* C3 witness: a call that arrived after a load of its path had failed has
\* read and parsed the file afresh, succeeded and cached the content.
C3_Witness ==
    /\ last.name # "none" /\ last.retry /\ ~last.hit
    /\ IsPayload(last.outcome)
    /\ last.key \in failedKeys
    /\ last.key \in DOMAIN pdfCache
    /\ parseCount >= 1

\* What the response of a finished call shows of a content: its metadata,
\* and for read_pdf its text as well.
Observes(f, content) ==
    /\ f.outcome.content.text.json.metadata = content.metadata
    /\ f.name = "read_pdf" => f.outcome.content.text.json.text = content.text

\* C11 (as claimed): a call that arrives for a path not in the cache starts
\* a read of its own, also while another load of that path is suspended, and
\* a read that succeeds is followed by a parse of its own; a load that
\* succeeds writes what it parsed into the cache under its path, which is
\* then the entry, and the response shows that content; the race is
\* harmless: when an earlier load had already cached the path, the later
\* load writes and shows the very content that was cached; and no step of a
\* load adds, changes or removes the entry of another path.
C11_RaceHarmless ==
    [][/\ \A r \in BagToSet(inflight') :
             (CopiesIn(r, inflight') > CopiesIn(r, inflight)) =>
                 IF r.at = "readFile"
                 THEN r.key \notin DOMAIN pdfCache /\ readCount' = readCount + 1
                 ELSE parseCount' = parseCount + 1
       /\ \A r \in BagToSet(inflight) :
             (r.at = "pdf" /\ CopiesIn(r, inflight') < CopiesIn(r, inflight)
              /\ IsPayload(last'.outcome)) =>
                 /\ last'.key = r.key /\ ~last'.hit
                 /\ r.key \in DOMAIN pdfCache'
                 /\ pdfCache'[r.key] = PDFContent(r.buffer.data)
                 /\ Observes(last', pdfCache'[r.key])
                 /\ r.key \in DOMAIN pdfCache =>
                       /\ pdfCache'[r.key] = pdfCache[r.key]
                       /\ Observes(last', pdfCache[r.key])
       /\ \A r \in BagToSet(inflight) :
             (CopiesIn(r, inflight') < CopiesIn(r, inflight)) =>
                 \A k \in (DOMAIN pdfCache \cup DOMAIN pdfCache') \ {r.key} :
                     /\ k \in DOMAIN pdfCache /\ k \in DOMAIN pdfCache'
                     /\ pdfCache'[k] = pdfCache[k]
      ]_vars

(***************************************************************************)
(* The dispatcher (SpecDispatch).                                          *)
(***************************************************************************)
HasPrefix(str, prefix) ==
    Len(str) >= Len(prefix) /\ SubSeq(str, 1, Len(prefix)) = prefix

\* The cases in which the handler or what it calls raises an error: a bad
\* argument, an unknown tool, a file that cannot be read or parsed, no page
\* selector.
ErrorRaised(f) ==
    \/ f.name \notin ToolNames
    \/ typeof(f.args.path) # "string"
    \/ f.name = "search_pdf" /\ typeof(f.args.query) # "string"
    \/ ~f.hit /\ f.key \in DOMAIN fsys /\ fsys[f.key] \in {NoFile, Garbage}
    \/ /\ f.name = "read_pdf_page"
       /\ f.args.page = Undefined
       /\ (f.args.startPage = Undefined \/ f.args.endPage = Undefined)

ErrorShaped(outcome) ==
    /\ outcome.channel = "return"
    /\ outcome.content.type = "text"
    /\ IsErrorText(outcome)
    /\ Len(outcome.content.text.error) >= 2
    /\ Head(outcome.content.text.error) = "Error: "

UniformResponse(f) ==
    /\ f.outcome.channel = "return"
    /\ f.outcome.content.type = "text"
    /\ IsErrorText(f.outcome) => ErrorShaped(f.outcome)
    /\ (f.args # NoArgs /\ ErrorRaised(f)) => ErrorShaped(f.outcome)
    /\ (f.args # NoArgs /\ ~ErrorRaised(f)) => IsPayload(f.outcome)

BeginsUnknownTool(outcome) ==
    /\ ErrorShaped(outcome)
    /\ SubSeq(outcome.content.text.error, 1, 2) = <<"Error: ", "Unknown tool">>

\* C4 (as claimed): every finished call has returned a text; every error
\* raised has been returned as "Error: <message>"; a call of a name that is
\* no tool, whatever its arguments, returns a text that begins with
\* "Error: Unknown tool".
C4_UniformErrorAnyBag ==
    last.name # "none" =>
        /\ UniformResponse(last)
        /\ last.args = NoArgs => ErrorShaped(last.outcome)
        /\ last.name \notin ToolNames => BeginsUnknownTool(last.outcome)

\* C4 (amended): as claimed, except that a name that is no tool yields
\* "Error: Unknown tool..." only when the call carries an argument bag; with
\* no bag every call, of whatever name, yields
\* "Error: Missing arguments for tool call".
C4_UniformError ==
    last.name # "none" =>
        /\ UniformResponse(last)
        /\ last.args = NoArgs =>
              /\ ErrorShaped(last.outcome)
              /\ last.outcome.content.text.error = <<"Error: ">> \o MsgMissingArgs
        /\ (last.name \notin ToolNames /\ last.args # NoArgs) =>
              BeginsUnknownTool(last.outcome)

\* C4 witness: delete_pdf, called with an argument bag, has been answered
\* with "Error: Unknown tool: delete_pdf".
C4_Witness ==
    /\ last.name = "delete_pdf"
    /\ last.args # NoArgs
    /\ last.outcome.channel = "return"
    /\ last.outcome.content.text = [error |-> <<"Error: ", "Unknown tool", ": ", "delete_pdf">>]

\* An argument bag that is missing or does not fit the input schema of the
\* tool (src/src/index.ts, lines 54-128).
TypeIn(v, types) == typeof(v) \in types
InvalidBag(name, args) ==
    \/ args = NoArgs
    \/ /\ name \in ToolNames
       /\ \/ ~TypeIn(args.path, {"string"})
          \/ /\ name = "read_pdf_page"
             /\ \/ ~TypeIn(args.page, {"undefined", "number"})
                \/ ~TypeIn(args.startPage, {"undefined", "number"})
                \/ ~TypeIn(args.endPage, {"undefined", "number"})
          \/ /\ name = "search_pdf"
             /\ \/ ~TypeIn(args.query, {"string"})
                \/ ~TypeIn(args.caseSensitive, {"undefined", "boolean"})

\* C5 (as claimed): a call whose argument bag is missing or does not fit
\* the schema of its tool never reaches fs.readFile or pdf, and ends with an
\* error.
C5_ValidationBeforeIO ==
    /\ \A r \in BagToSet(inflight) : ~InvalidBag(r.name, r.args)
    /\ (last.name # "none" /\ InvalidBag(last.name, last.args)) =>
          /\ ErrorShaped(last.outcome)
          /\ last.key = <<>>

\* The classification the specification gives: a URL starts with http://
\* or https://.
IsURL(str) ==
    \/ HasPrefix(str, <<"h", "t", "t", "p", ":", "/", "/">>)
    \/ HasPrefix(str, <<"h", "t", "t", "p", "s", ":", "/", "/">>)
URLCall(name, args) ==
    /\ name \in ToolNames
    /\ args # NoArgs
    /\ typeof(args.path) = "string"
    /\ IsURL(args.path.s)
    /\ name = "search_pdf" => typeof(args.query) = "string"

DiskPathOf(url) ==
    Cwd \o <<"/">> \o SubSeq(url, 1, 5) \o SubSeq(url, 7, Len(url))
LoadedLines == split(pdfCache[KeyA].text, NL)
LoadedPages == pdfCache[KeyA].metadata.pages
ReturnedJSON == last.outcome.content.text.json

\* C6 (as claimed): with pageCount >= 1 and linesPerPage the ceiling of
\* lines / pageCount, page p in 1..pageCount returns the lines at 0-based
\* indices (p-1)*linesPerPage up to p*linesPerPage, cut at the last line,
\* and any other page number returns the empty text; never an error.
C6_SinglePage ==
    (last.name = "read_pdf_page" /\ typeof(last.args.page) = "number" /\ LoadedPages >= 1) =>
        LET n == Len(LoadedLines)
            perPage == CeilDiv(n, LoadedPages)
            p == last.args.page.n
            expected == IF p \in 1..LoadedPages
                        THEN SubSeq(LoadedLines, (p - 1) * perPage + 1, Min(p * perPage, n))
                        ELSE <<>>
        IN  /\ IsPayload(last.outcome)
            /\ ReturnedJSON.text = join(expected, NL)
            /\ p \notin 1..LoadedPages => ReturnedJSON.text = <<>>

\* C7 (as claimed): when the document reports 0 pages, every read_pdf_page
\* call, for a page or for a range, is answered with an "Error: ..." text.
C7_ZeroPagesRejected ==
    (last.name = "read_pdf_page" /\ LoadedPages = 0) => ErrorShaped(last.outcome)

\* C8: search_pdf returns one match for each line that contains the query
\* (both in lower case unless caseSensitive is true) and for no other line,
\* with 1-based line numbers strictly ascending, and totalMatches is the
\* number of matches.
Normalized(str, caseSensitive) ==
    IF caseSensitive THEN str ELSE [i \in 1..Len(str) |-> LowerChar(str[i])]
Occurs(query, line) ==
    \E i \in 1..(Len(line) - Len(query) + 1) :
        \A j \in 1..Len(query) : line[i + j - 1] = query[j]
C8_SearchResults ==
    last.name = "search_pdf" =>
        LET caseSensitive == last.args.caseSensitive = JBool(TRUE)
            query == Normalized(last.args.query.s, caseSensitive)
            hits == {i \in 1..Len(LoadedLines) :
                        Occurs(query, Normalized(LoadedLines[i], caseSensitive))}
            matches == ReturnedJSON.matches
        IN  /\ IsPayload(last.outcome)
            /\ {matches[j].line : j \in 1..Len(matches)} = hits
            /\ \A j, k \in 1..Len(matches) : j < k => matches[j].line < matches[k].line
            /\ Len(matches) = Cardinality(hits)
            /\ ReturnedJSON.totalMatches = Len(matches)

\* C8 witness: the query "F" has matched the line "f " of a one-line
\* document in a search that was not case-sensitive.
C8_Witness ==
    /\ last.name = "search_pdf"
    /\ last.args.query = JStr(<<"F">>)
    /\ last.args.caseSensitive # JBool(TRUE)
    /\ pdfCache[KeyA].text = <<"f", " ">>
    /\ ReturnedJSON.totalMatches = 1
    /\ ReturnedJSON.matches[1].line = 1

\* C9: the context of a match at 0-based line index i of n lines is the
\* lines max(0, i-1) .. min(n-1, i+1) as they are in the document, joined by
\* newline: the line before and the line after when both exist, from the
\* matching line on when i = 0, up to the matching line when i = n-1.
C9_ContextWindow ==
    last.name = "search_pdf" =>
        LET n == Len(LoadedLines)
            matches == ReturnedJSON.matches
        IN  \A j \in 1..Len(matches) :
                LET i == matches[j].line - 1
                    first == Max(0, i - 1)
                    final == Min(n - 1, i + 1)
                    window == [k \in 1..(final - first + 1) |-> LoadedLines[first + k]]
                IN  /\ 0 <= i /\ i <= n - 1
                    /\ matches[j].context = join(window, NL)
                    /\ (i >= 1 /\ i <= n - 2) =>
                          window = <<LoadedLines[i], LoadedLines[i + 1], LoadedLines[i + 2]>>
                    /\ i = 0 => window[1] = LoadedLines[1]
                    /\ i = n - 1 => window[Len(window)] = LoadedLines[n]

\* C9 witness: a match on a line that has a line before it and a line
\* after it, with the three lines as its context.
C9_Witness ==
    /\ last.name = "search_pdf"
    /\ pdfCache[KeyA].text = <<"f", NL, "F", NL>>
    /\ last.args.query = JStr(<<"F">>)
    /\ last.args.caseSensitive = JBool(TRUE)
    /\ Len(ReturnedJSON.matches) = 1
    /\ ReturnedJSON.matches[1].line = 2
    /\ ReturnedJSON.matches[1].context = <<"f", NL, "F", NL>>

=============================================================================
